---------------------------- MODULE Spec2Model ----------------------------
(***************************************************************************)
(* A state-machine model of the Renderer (Renderer.cpp) and of the Shader  *)
(* program abstraction (Shader.cpp) of game-activity-opengl-test.          *)
(*                                                                         *)
(* The GL/EGL driver, the asset loader and the input source are the        *)
(* environment: every value they hand back is drawn from a small set.      *)
(* Lengths are kept exact; floating-point values are kept as exact         *)
(* integers: the depth counter in units of 0.00001, a world coordinate as  *)
(* a fraction <<numerator, denominator>> in lowest terms.                  *)
(***************************************************************************)
EXTENDS Integers, Sequences, FiniteSets, TLC

(***************************************************************************)
(* Bounds of the model.                                                    *)
(***************************************************************************)
\* pointer-down events handled in one run (caps the depth counter)
MaxDowns == 2
\* events in one input buffer of the frame loop
MaxEvents == 2

(***************************************************************************)
(* Program constants.                                                      *)
(***************************************************************************)
\* EGL_NO_DISPLAY / EGL_NO_SURFACE / EGL_NO_CONTEXT, nullptr, program 0
Null == 0
\* the GL "not found" location, and the invalid width/height of initRenderer
NotFound == -1
\* counter = 0.0001f, in units of 0.00001
CounterInit == 10
\* counter += 0.00001f, in units of 0.00001
CounterStep == 1

RobotKey == "android_robot.png"
\* the asset paths the Renderer asks for
Keys == {RobotKey}

\* the sizes the window surface can take: <<width, height>>
Surfaces == {<<2, 2>>, <<4, 2>>}

(***************************************************************************)
(* Small helpers.                                                          *)
(***************************************************************************)
RECURSIVE Gcd(_, _)
Gcd(a, b) == IF b = 0 THEN a ELSE Gcd(b, a % b)

Range(s) == {s[i] : i \in 1..Len(s)}

VARIABLES
    pc,             \* "constructed", "ready", "aborted", "destroyed"
    assetManager,   \* app_->activity->assetManager is non-null
    surf,           \* the size of the window surface, <<width, height>>
    display_, surface_, context_,
    width_, height_, shaderNeedsNewProjectionMatrix_,
    shader_, shaderRed_,
    models_, modelsRed_,
    textureCache_, counter,
    gl,             \* the GL objects and the GL context state
    loader,         \* the asset loader: next resource, calls per key
    texLog,         \* the getOrLoadTexture calls of the last handler
    evLog,          \* the input events the last handleInput went through
    swapLog,        \* the input buffer the last handleInput swapped in
    bufLog,         \* what the last handleInput did with that buffer, in order
    shaderLog,      \* one record per Shader::loadShader call
    frame,          \* the GL/EGL calls of the last render, in order
    eglLog,         \* the EGL release calls made so far
    lastOp          \* the handler that ran last

vars == <<pc, assetManager, surf, display_, surface_, context_, width_, height_,
          shaderNeedsNewProjectionMatrix_, shader_, shaderRed_, models_,
          modelsRed_, textureCache_, counter, gl, loader, texLog, evLog,
          swapLog, bufLog, shaderLog, frame, eglLog, lastOp>>


(***************************************************************************)
(* Shader.cpp                                                              *)
(*                                                                         *)
(* The GL driver decides how far a program build gets: failAt names the    *)
(* first GL call that fails ("none": every call succeeds).  Calls after    *)
(* the failing one are not made on the paths that return early, and are    *)
(* reported as failed by the driver otherwise.                             *)
(***************************************************************************)
FailPoints == <<"vsCreate", "vsCompile", "fsCreate", "fsCompile",
                "progCreate", "link", "posLoc", "projLoc", "none">>

StepIndex(step) == CHOOSE i \in 1..Len(FailPoints) : FailPoints[i] = step

\* the GL call `step` succeeds when the build fails at failAt
StepOk(step, failAt) == StepIndex(step) < StepIndex(failAt)

\* the locations glGetAttribLocation / glGetUniformLocation hand out
PositionLocation == 0
UvLocation == 1
ProjectionLocation == 0

\* a null Shader*
NoShader == [program |-> Null, position_ |-> NotFound, uv_ |-> NotFound,
             projectionMatrix_ |-> NotFound]

\* the matrix a fresh program's uniform holds
ZeroMatrix == <<0, 0>>

GlDeleteShader(g, id) == [g EXCEPT !.shaders = @ \ {id}]

GlDeleteProgram(g, id) ==
    [g EXCEPT !.programs = @ \ {id},
              !.uniform = [p \in (DOMAIN @) \ {id} |-> @[p]]]

\* glCreateShader: a fresh non-zero name, or 0
GlCreateShader(g, ok) ==
    IF ok THEN [id |-> g.next,
                gl |-> [g EXCEPT !.next = @ + 1, !.shaders = @ \cup {g.next}]]
          ELSE [id |-> Null, gl |-> g]

\* glCreateProgram: a fresh non-zero name, or 0
GlCreateProgram(g, ok) ==
    IF ok THEN [id |-> g.next,
                gl |-> [g EXCEPT !.next = @ + 1, !.programs = @ \cup {g.next},
                                 !.uniform = [p \in (DOMAIN @) \cup {g.next} |->
                                     IF p = g.next THEN ZeroMatrix ELSE @[p]]]]
          ELSE [id |-> Null, gl |-> g]

\* Shader::loadShader(GLenum, source): the stage object, or 0
LoadStage(g, created, compiled) ==
    LET c == GlCreateShader(g, created) IN
    IF c.id = Null THEN [id |-> Null, made |-> {}, gl |-> g]
    ELSE IF ~compiled
         THEN [id |-> Null, made |-> {c.id}, gl |-> GlDeleteShader(c.gl, c.id)]
         ELSE [id |-> c.id, made |-> {c.id}, gl |-> c.gl]

\* the location test with 0 taken for the "not found" value
LocationMissingZero(loc) == loc = 0

\* positionAttribute == -1, projectionMatrixUniform == -1
LocationMissing(loc) == loc = NotFound

\* uvAttribute of Shader::loadShader
ResolveUv(uvNameEmpty, uvFound) ==
    IF ~uvNameEmpty /\ uvFound THEN UvLocation ELSE NotFound

\* Shader::loadShader(vertexSource, fragmentSource, position, uv, projection):
\* the Shader it returns (NoShader for nullptr), the GL objects it made, and
\* the GL objects left alive.
LoadShader(g, failAt, uvNameEmpty, uvFound) ==
    LET v == LoadStage(g, StepOk("vsCreate", failAt), StepOk("vsCompile", failAt))
    IN
    IF v.id = Null
    THEN [shader |-> NoShader, stages |-> v.made, program |-> Null, gl |-> v.gl]
    ELSE
    LET f == LoadStage(v.gl, StepOk("fsCreate", failAt), StepOk("fsCompile", failAt))
        made == v.made \cup f.made
    IN
    IF f.id = Null
    THEN [shader |-> NoShader, stages |-> made, program |-> Null,
          gl |-> GlDeleteShader(f.gl, v.id)]
    ELSE
    LET p == GlCreateProgram(f.gl, StepOk("progCreate", failAt))
        release(h) == GlDeleteShader(GlDeleteShader(h, v.id), f.id)
        positionAttribute ==
            IF StepOk("posLoc", failAt) THEN PositionLocation ELSE NotFound
        uvAttribute == ResolveUv(uvNameEmpty, uvFound)
        projectionMatrixUniform ==
            IF StepOk("projLoc", failAt) THEN ProjectionLocation ELSE NotFound
    IN
    IF p.id = Null
    THEN [shader |-> NoShader, stages |-> made, program |-> Null,
          gl |-> release(p.gl)]
    ELSE IF ~StepOk("link", failAt)
    THEN [shader |-> NoShader, stages |-> made, program |-> p.id,
          gl |-> release(GlDeleteProgram(p.gl, p.id))]
    ELSE IF LocationMissing(positionAttribute)
    THEN \* return nullptr: the stage objects are not released
         [shader |-> NoShader, stages |-> made, program |-> p.id,
          gl |-> GlDeleteProgram(p.gl, p.id)]
    ELSE IF LocationMissing(projectionMatrixUniform)
    THEN \* return nullptr: the stage objects are not released
         [shader |-> NoShader, stages |-> made, program |-> p.id,
          gl |-> GlDeleteProgram(p.gl, p.id)]
    ELSE IF ~LocationMissing(positionAttribute)
            /\ ~LocationMissing(projectionMatrixUniform)
    THEN [shader |-> [program |-> p.id, position_ |-> positionAttribute,
                      uv_ |-> uvAttribute,
                      projectionMatrix_ |-> projectionMatrixUniform],
          stages |-> made, program |-> p.id, gl |-> release(p.gl)]
    ELSE [shader |-> NoShader, stages |-> made, program |-> p.id,
          gl |-> release(GlDeleteProgram(p.gl, p.id))]

\* what one loadShader call did, as kept in shaderLog
ShaderCall(r, failAt, uvNameEmpty, uvFound) ==
    [failAt |-> failAt, uvNameEmpty |-> uvNameEmpty, uvFound |-> uvFound,
     shader |-> r.shader, stages |-> r.stages, program |-> r.program,
     stagesLive |-> r.stages \cap r.gl.shaders,
     programLive |-> r.program \in r.gl.programs]


(***************************************************************************)
(* The GL call log.  Every GL/EGL call of a frame is one record; the calls *)
(* of Shader::drawModel carry the model they draw (its list and its index  *)
(* in the list).  A call made by a Shader object carries the program_ of   *)
(* that object in prog; a call made by the Renderer carries Null there.    *)
(***************************************************************************)
GlOp(op, arg) ==
    [op |-> op, arg |-> arg, list |-> "", idx |-> 0, mat |-> ZeroMatrix,
     prog |-> Null]

GlMatOp(op, arg, mat) ==
    [op |-> op, arg |-> arg, list |-> "", idx |-> 0, mat |-> mat, prog |-> Null]

ModelOp(op, arg, list, idx) ==
    [op |-> op, arg |-> arg, list |-> list, idx |-> idx, mat |-> ZeroMatrix,
     prog |-> Null]

\* the logged call o as made by the Shader object shader
By(shader, o) == [o EXCEPT !.prog = shader.program]

\* the effect of one logged call on the GL context state
GlApply(g, o) ==
    CASE o.op = "glUseProgram" -> [g EXCEPT !.current = o.arg]
      [] o.op = "glUniformMatrix4fv" ->
            IF g.current \in DOMAIN g.uniform /\ o.arg # NotFound
            THEN [g EXCEPT !.uniform[g.current] = o.mat] ELSE g
      [] o.op = "glViewport" -> [g EXCEPT !.viewport = o.mat]
      [] o.op = "glEnableVertexAttribArray" -> [g EXCEPT !.enabled = @ \cup {o.arg}]
      [] o.op = "glDisableVertexAttribArray" -> [g EXCEPT !.enabled = @ \ {o.arg}]
      [] OTHER -> g

RECURSIVE GlApplyAll(_, _)
GlApplyAll(g, ops) ==
    IF ops = <<>> THEN g ELSE GlApplyAll(GlApply(g, Head(ops)), Tail(ops))

\* Shader::activate / Shader::deactivate
Activate(shader) == <<By(shader, GlOp("glUseProgram", shader.program))>>

\* deactivate that leaves the program in use
DeactivateNothing(shader) == <<>>

Deactivate(shader) == <<By(shader, GlOp("glUseProgram", Null))>>

\* Shader::setProjectionMatrix
SetProjectionMatrix(shader, mat) ==
    <<By(shader, GlMatOp("glUniformMatrix4fv", shader.projectionMatrix_, mat))>>

\* the uv test of drawModel with the sentinel ignored
HasUvAlways(shader) == TRUE

\* if (uv_ != -1)
HasUv(shader) == shader.uv_ # NotFound

\* drawModel with the attributes disabled in the order they were enabled
DrawModelForward(shader, model, list, idx) ==
    LET Op(op, arg) == By(shader, ModelOp(op, arg, list, idx)) IN
    <<Op("glVertexAttribPointer", shader.position_),
      Op("glEnableVertexAttribArray", shader.position_)>>
    \o (IF HasUv(shader)
        THEN <<Op("glVertexAttribPointer", shader.uv_),
               Op("glEnableVertexAttribArray", shader.uv_),
               Op("glActiveTexture", 0),
               Op("glBindTexture", model.tex)>>
        ELSE <<>>)
    \o <<Op("glDrawElements", 0)>>
    \o <<Op("glDisableVertexAttribArray", shader.position_)>>
    \o (IF HasUv(shader)
        THEN <<Op("glDisableVertexAttribArray", shader.uv_)>>
        ELSE <<>>)

\* Shader::drawModel(model): its GL calls in order.  The texture bound is
\* model.getTexture().getTextureID(): Null stands for a null texture pointer.
DrawModel(shader, model, list, idx) ==
    LET Op(op, arg) == By(shader, ModelOp(op, arg, list, idx)) IN
    <<Op("glVertexAttribPointer", shader.position_),
      Op("glEnableVertexAttribArray", shader.position_)>>
    \o (IF HasUv(shader)
        THEN <<Op("glVertexAttribPointer", shader.uv_),
               Op("glEnableVertexAttribArray", shader.uv_),
               Op("glActiveTexture", 0),
               Op("glBindTexture", model.tex)>>
        ELSE <<>>)
    \o <<Op("glDrawElements", 0)>>
    \o (IF HasUv(shader)
        THEN <<Op("glDisableVertexAttribArray", shader.uv_)>>
        ELSE <<>>)
    \o <<Op("glDisableVertexAttribArray", shader.position_)>>

RECURSIVE DrawAll(_, _, _, _)
\* for (const auto &model: list) shader->drawModel(model), from index i on
DrawAll(shader, models, list, i) ==
    IF i > Len(models) THEN <<>>
    ELSE DrawModel(shader, models[i], list, i) \o DrawAll(shader, models, list, i + 1)

\* activate, draw the whole list, deactivate; nothing for an empty list
DrawList(shader, models, list) ==
    IF models = <<>> THEN <<>>
    ELSE Activate(shader) \o DrawAll(shader, models, list, 1) \o Deactivate(shader)


(***************************************************************************)
(* Renderer.cpp: the texture cache                                         *)
(***************************************************************************)
\* TextureAsset::loadAsset: a fresh texture resource, or null
LoadAsset(ld, key, ok) ==
    [tex |-> IF ok THEN ld.next ELSE Null,
     loader |-> [next |-> IF ok THEN ld.next + 1 ELSE ld.next,
                 calls |-> [ld.calls EXCEPT ![key] = @ + 1],
                 oks |-> [ld.oks EXCEPT ![key] = IF ok THEN @ + 1 ELSE @]]]

\* the cache lookup that never finds an entry
CacheFindNever(cache, key) == FALSE

\* textureCache_.find(assetPath) != textureCache_.end()
CacheFind(cache, key) == key \in DOMAIN cache

\* textureCache_[assetPath] = newTexture
CacheStore(cache, key, tex) ==
    [k \in (DOMAIN cache) \cup {key} |-> IF k = key THEN tex ELSE cache[k]]

\* the store made whatever the loader returned
ShouldStoreAlways(newTexture) == TRUE

\* if (newTexture)
ShouldStore(newTexture) == newTexture # Null

\* the cached pointer replaced by a fresh copy of the texture on a hit
CachedFresh(cache, ld, key) == ld.next

\* it->second
Cached(cache, ld, key) == cache[key]

\* Renderer::getOrLoadTexture(assetPath): the pointer returned (Null for
\* nullptr), the cache and the loader afterwards, and the record of the call
GetOrLoadTexture(cache, ld, key, mgr, ok) ==
    IF CacheFind(cache, key)
    THEN [ret |-> Cached(cache, ld, key), cache |-> cache, loader |-> ld,
          hit |-> TRUE, loaded |-> FALSE, got |-> Null]
    ELSE IF ~mgr
    THEN [ret |-> Null, cache |-> cache, loader |-> ld,
          hit |-> FALSE, loaded |-> FALSE, got |-> Null]
    ELSE LET l == LoadAsset(ld, key, ok) IN
         [ret |-> l.tex, got |-> l.tex,
          cache |-> IF ShouldStore(l.tex) THEN CacheStore(cache, key, l.tex)
                                          ELSE cache,
          loader |-> l.loader, hit |-> FALSE, loaded |-> TRUE]

\* the record of one getOrLoadTexture call, as kept in texLog: the key, whether
\* the cache held it, whether the loader was invoked and what it handed back,
\* the pointer returned, and the cache before and after the call
TexCall(r, key, before) ==
    [key |-> key, hit |-> r.hit, loaded |-> r.loaded, got |-> r.got, ret |-> r.ret,
     before |-> before, after |-> r.cache]

(***************************************************************************)
(* Renderer.cpp: the models                                                *)
(***************************************************************************)
\* a Model: the centre of its quad, its depth, its texture pointer, and the
\* code that made it
Model(cx, cy, z, tex, origin) ==
    [cx |-> cx, cy |-> cy, z |-> z, tex |-> tex, origin |-> origin]

\* the value of the fraction n / d: lowest terms, positive denominator
Frac(n, d) ==
    LET g == Gcd(IF n < 0 THEN -n ELSE n, IF d < 0 THEN -d ELSE d) IN
    IF d < 0 THEN <<(-n) \div g, (-d) \div g>> ELSE <<n \div g, d \div g>>

\* 2.5f*x/float(width_)-1.25f as the fraction (10x - 5w) / 4w
WorldX(x, w) == Frac(10 * x - 5 * w, 4 * w)

\* -4.f*y/float(height_)+2.0f as the fraction (2h - 4y) / h
WorldY(y, h) == Frac(2 * h - 4 * y, h)

\* the depth counter left as it is
NextCounterSame(c) == c

\* counter += 0.00001f
NextCounter(c) == c + CounterStep

\* Renderer::createModels: a state [models, cache, loader, log] afterwards
CreateModels(st, z, mgr, ok) ==
    LET r == GetOrLoadTexture(st.cache, st.loader, RobotKey, mgr, ok)
        m == Model(<<0, 1>>, <<0, 1>>, z, r.ret, "demo")
        first == IF r.ret # Null THEN Append(st.models, m) ELSE st.models
    IN [st EXCEPT !.models = Append(first, m),
                  !.cache = r.cache, !.loader = r.loader,
                  !.log = Append(@, TexCall(r, RobotKey, st.cache))]

\* Renderer::createBackground: the list modelsRed_ afterwards
CreateBackground(red) ==
    Append(red, Model(<<0, 1>>, <<0, 1>>, 0, Null, "background"))

\* drawRobotInPosition with the model put at the front of the list
DrawRobotInPositionFront(st, x, y, z, mgr, ok) ==
    LET r == GetOrLoadTexture(st.cache, st.loader, RobotKey, mgr, ok)
    IN [st EXCEPT !.models = IF r.ret # Null
                             THEN <<Model(x, y, z, r.ret, "input")>> \o @
                             ELSE @,
                  !.cache = r.cache, !.loader = r.loader,
                  !.log = Append(@, TexCall(r, RobotKey, st.cache))]

\* drawRobotInPosition with the model created whatever the fetch returned
DrawRobotInPositionAnyway(st, x, y, z, mgr, ok) ==
    LET r == GetOrLoadTexture(st.cache, st.loader, RobotKey, mgr, ok)
    IN [st EXCEPT !.models = Append(@, Model(x, y, z, r.ret, "input")),
                  !.cache = r.cache, !.loader = r.loader,
                  !.log = Append(@, TexCall(r, RobotKey, st.cache))]

\* Renderer::drawRobotInPosition(x, y, z)
DrawRobotInPosition(st, x, y, z, mgr, ok) ==
    LET r == GetOrLoadTexture(st.cache, st.loader, RobotKey, mgr, ok)
    IN [st EXCEPT !.models = IF r.ret # Null
                             THEN Append(@, Model(x, y, z, r.ret, "input"))
                             ELSE @,
                  !.cache = r.cache, !.loader = r.loader,
                  !.log = Append(@, TexCall(r, RobotKey, st.cache))]

(***************************************************************************)
(* Renderer.cpp: input                                                     *)
(***************************************************************************)
DownActions == {"DOWN", "POINTER_DOWN"}
MotionActions == DownActions \cup {"UP", "POINTER_UP", "CANCEL", "MOVE", "UNKNOWN"}
KeyActions == {"DOWN", "UP", "MULTIPLE", "UNKNOWN"}

\* what handleInput keeps of the Renderer while it goes through the events
Kept(st) == [models |-> st.models, cache |-> st.cache, counter |-> st.counter]

\* the record of one event handled, as kept in evLog: the event, the texture
\* fetch it made (fetch: one was made, tex: the pointer it returned), and the
\* models, the cache and the depth counter before and after the event
Handled(kind, ev, before, after) ==
    [kind |-> kind, action |-> ev.action, x |-> ev.x, y |-> ev.y,
     fetch |-> Len(after.log) > Len(before.log),
     tex |-> IF Len(after.log) > Len(before.log)
             THEN after.log[Len(after.log)].ret ELSE Null,
     before |-> Kept(before), after |-> Kept(after)]

\* the switch on the motion action of handleInput
MotionCase(st, ev, w, h, mgr) ==
    IF ev.action \in DownActions
    THEN LET d == DrawRobotInPosition(st, WorldX(ev.x, w), WorldY(ev.y, h),
                                      st.counter, mgr, ev.ok)
         IN [d EXCEPT !.counter = NextCounter(@)]
    ELSE st

\* one motion event of the loop in handleInput
MotionEvent(st, ev, w, h, mgr) ==
    LET after == MotionCase(st, ev, w, h, mgr) IN
    [after EXCEPT !.events = Append(@, Handled("motion", ev, st, after))]

RECURSIVE MotionEvents(_, _, _, _, _, _)
\* for (i = 0; i < motionEventsCount; i++), from event i on
MotionEvents(st, evs, i, w, h, mgr) ==
    IF i > Len(evs) THEN st
    ELSE MotionEvents(MotionEvent(st, evs[i], w, h, mgr), evs, i + 1, w, h, mgr)

\* a key event taken for a step of the depth counter
KeyCaseCounts(st, k) == [st EXCEPT !.counter = NextCounter(@)]

\* the switch on the key action of handleInput: a diagnostic only
KeyCase(st, k) == st

\* one key event of the loop in handleInput
KeyEvent(st, k) ==
    LET after == KeyCase(st, k) IN
    [after EXCEPT !.events =
        Append(@, Handled("key", [action |-> k, x |-> 0, y |-> 0], st, after))]

RECURSIVE KeyEvents(_, _, _)
KeyEvents(st, keys, i) ==
    IF i > Len(keys) THEN st ELSE KeyEvents(KeyEvent(st, keys[i]), keys, i + 1)

\* both queues of the buffer emptied at once
ClearEvents(b) == [b EXCEPT !.motion = <<>>, !.keys = <<>>]

\* android_app_clear_motion_events(inputBuffer): the motion count set to 0
ClearMotionEvents(b) == [b EXCEPT !.motion = <<>>]

\* android_app_clear_key_events(inputBuffer): the key count set to 0
ClearKeyEvents(b) == [b EXCEPT !.keys = <<>>]

\* one step of handleInput on the input buffer, as kept in bufLog: the loop
\* or the call, the events the loop went through, and the buffer afterwards
BufferStep(op, handled, b) ==
    [op |-> op, handled |-> handled, motion |-> b.motion, keys |-> b.keys]

\* Renderer::handleInput from the swap on, on the input buffer buf: the loop
\* on the motion events, the motion queue cleared, the loop on the key
\* events of the buffer as it then is, the key queue cleared
HandleEvents(st, buf, w, h, mgr) ==
    LET s1 == MotionEvents(st, buf.motion, 1, w, h, mgr)
        b1 == ClearMotionEvents(buf)
        s2 == KeyEvents(s1, b1.keys, 1)
        b2 == ClearKeyEvents(b1)
    IN [st |-> s2,
        steps |-> <<BufferStep("motionEvents", Len(s1.events) - Len(st.events), buf),
                    BufferStep("android_app_clear_motion_events", 0, b1),
                    BufferStep("keyEvents", Len(s2.events) - Len(s1.events), b1),
                    BufferStep("android_app_clear_key_events", 0, b2)>>]

(***************************************************************************)
(* Renderer.cpp: the render area and the projection                        *)
(***************************************************************************)
\* Utility::buildOrthographicMatrix(m, halfHeight, aspect, near, far): with
\* the half height and the planes fixed, the matrix is a function of the
\* aspect ratio float(width_) / float(height_), kept in lowest terms
BuildOrthographicMatrix(w, h) ==
    LET g == Gcd(w, h) IN <<w \div g, h \div g>>

\* if (width != width_ || height != height_)
SizeChanged(width, height, w_, h_) == width # w_ \/ height # h_

\* the flag raised on every call
NeedsRebuildAlways(changed, flag) == TRUE

\* shaderNeedsNewProjectionMatrix_ after updateRenderArea
NeedsRebuild(changed, flag) == changed \/ flag

\* Renderer::updateRenderArea with the surface size <<width, height>> queried
UpdateRenderArea(w_, h_, flag, width, height) ==
    LET changed == SizeChanged(width, height, w_, h_) IN
    [width_ |-> IF changed THEN width ELSE w_,
     height_ |-> IF changed THEN height ELSE h_,
     flag |-> NeedsRebuild(changed, flag),
     ops |-> <<GlOp("eglQuerySurface", width), GlOp("eglQuerySurface", height)>>
             \o (IF changed THEN <<GlMatOp("glViewport", 0, <<width, height>>)>>
                            ELSE <<>>)]

\* the upload of render, to the texture program alone
UploadProjectionOne(sh, shRed, mat) ==
    Activate(sh) \o SetProjectionMatrix(sh, mat) \o Deactivate(sh)

\* the upload of the projection matrix to both programs in render
UploadProjection(sh, shRed, mat) ==
    Activate(sh) \o SetProjectionMatrix(sh, mat) \o Deactivate(sh)
    \o Activate(shRed) \o SetProjectionMatrix(shRed, mat) \o Deactivate(shRed)

\* the two draw loops of render in the other order
DrawListsTexturedFirst(sh, shRed, models, red) ==
    DrawList(sh, models, "models_") \o DrawList(shRed, red, "modelsRed_")

\* the two draw loops of render: modelsRed_ first, then models_
DrawLists(sh, shRed, models, red) ==
    DrawList(shRed, red, "modelsRed_") \o DrawList(sh, models, "models_")

\* render with the buffers cleared after the draw loops
RenderOpsClearLast(sh, shRed, models, red, u, rebuild) ==
    u.ops
    \o (IF rebuild
        THEN UploadProjection(sh, shRed, BuildOrthographicMatrix(u.width_, u.height_))
        ELSE <<>>)
    \o DrawLists(sh, shRed, models, red)
    \o <<GlOp("glClear", 0)>>

\* the GL calls of Renderer::render from updateRenderArea to the last draw
RenderOps(sh, shRed, models, red, u, rebuild) ==
    u.ops
    \o (IF rebuild
        THEN UploadProjection(sh, shRed, BuildOrthographicMatrix(u.width_, u.height_))
        ELSE <<>>)
    \o <<GlOp("glClear", 0)>>
    \o DrawLists(sh, shRed, models, red)


(***************************************************************************)
(* The state machine                                                       *)
(***************************************************************************)
NoDisplay == "EGL_NO_DISPLAY"
NoSurface == "EGL_NO_SURFACE"
NoContext == "EGL_NO_CONTEXT"

\* a GL context with no objects
EmptyGl == [next |-> 1, shaders |-> {}, programs |-> {}, uniform |-> <<>>,
            current |-> Null, viewport |-> ZeroMatrix, enabled |-> {},
            pipeline |-> {}]

\* the global GL state initRenderer sets once both programs are built
FixedPipelineState == {"glClearColor", "GL_BLEND", "glBlendFunc",
                       "GL_DEPTH_TEST", "glDepthFunc", "glDepthMask"}

SetUpPipeline(g) == [g EXCEPT !.pipeline = FixedPipelineState]

\* an input buffer with no events
NoEvents == [motion |-> <<>>, keys |-> <<>>]

\* the Renderer as constructed, before initRenderer runs
Init ==
    /\ pc = "constructed"
    /\ assetManager \in BOOLEAN
    /\ surf \in Surfaces
    /\ display_ = NoDisplay /\ surface_ = NoSurface /\ context_ = NoContext
    /\ width_ = 0 /\ height_ = 0
    /\ shaderNeedsNewProjectionMatrix_ \in BOOLEAN
    /\ shader_ = NoShader /\ shaderRed_ = NoShader
    /\ models_ = <<>> /\ modelsRed_ = <<>>
    /\ textureCache_ = <<>>
    /\ counter = 0
    /\ gl = EmptyGl
    /\ loader = [next |-> 1, calls |-> [k \in Keys |-> 0], oks |-> [k \in Keys |-> 0]]
    /\ texLog = <<>> /\ shaderLog = <<>> /\ frame = <<>> /\ eglLog = <<>>
    /\ evLog = <<>> /\ swapLog = NoEvents /\ bufLog = <<>>
    /\ lastOp = "construct"

\* a failing assert(...) that lets the process go on
AbortNot == pc' = "ready"

\* assert(...) failing: the process aborts
Abort == pc' = "aborted"

\* Renderer::initRenderer.  madeCurrent is the result of eglMakeCurrent;
\* failAt and failAtRed are how far the driver lets the two program builds
\* get; ok is the result of the asset load.  A failing assert aborts the
\* process with the assignments made so far.
InitRenderer ==
    /\ pc = "constructed"
    /\ \E madeCurrent \in BOOLEAN, failAt \in Range(FailPoints),
          failAtRed \in Range(FailPoints), uvFound \in BOOLEAN, ok \in BOOLEAN :
          LET g0 == [gl EXCEPT !.viewport = surf]
              r1 == LoadShader(g0, failAt, FALSE, uvFound)
              r2 == LoadShader(r1.gl, failAtRed, TRUE, uvFound)
              st0 == [models |-> models_, cache |-> textureCache_,
                      loader |-> loader, log |-> <<>>, counter |-> CounterInit,
                      events |-> <<>>]
              st == CreateModels(st0, CounterInit, assetManager, ok)
          IN
          IF ~madeCurrent
          THEN \* assert(madeCurrent)
               /\ failAt = "none" /\ failAtRed = "none" /\ uvFound /\ ok
               /\ Abort
               /\ UNCHANGED <<display_, surface_, context_, width_, height_,
                              shader_, shaderRed_, gl, shaderLog, models_,
                              modelsRed_, textureCache_, loader, texLog, counter>>
          ELSE
          /\ display_' = "display" /\ surface_' = "surface" /\ context_' = "context"
          /\ width_' = NotFound /\ height_' = NotFound
          /\ shader_' = r1.shader
          /\ IF r1.shader = NoShader
             THEN \* assert(shader_)
                  /\ failAtRed = "none" /\ ok
                  /\ Abort
                  /\ gl' = r1.gl
                  /\ shaderLog' = Append(shaderLog,
                                         ShaderCall(r1, failAt, FALSE, uvFound))
                  /\ UNCHANGED <<shaderRed_, models_, modelsRed_, textureCache_,
                                 loader, texLog, counter>>
             ELSE
             /\ shaderRed_' = r2.shader
             /\ gl' = IF r2.shader = NoShader THEN r2.gl ELSE SetUpPipeline(r2.gl)
             /\ shaderLog' = shaderLog
                   \o <<ShaderCall(r1, failAt, FALSE, uvFound),
                        ShaderCall(r2, failAtRed, TRUE, uvFound)>>
             /\ IF r2.shader = NoShader
                THEN \* assert(shaderRed_)
                     /\ ok
                     /\ Abort
                     /\ UNCHANGED <<models_, modelsRed_, textureCache_, loader,
                                    texLog, counter>>
                ELSE
                /\ ok \/ assetManager
                /\ models_' = st.models
                /\ textureCache_' = st.cache
                /\ loader' = st.loader
                /\ texLog' = st.log
                /\ modelsRed_' = CreateBackground(modelsRed_)
                /\ counter' = NextCounter(CounterInit)
                /\ pc' = "ready"
    /\ lastOp' = "initRenderer"
    /\ UNCHANGED <<assetManager, surf, shaderNeedsNewProjectionMatrix_, frame,
                   eglLog, evLog, swapLog, bufLog>>

\* the window surface takes another size
Resize ==
    /\ pc = "ready"
    /\ \E s \in Surfaces \ {surf} : surf' = s
    /\ lastOp' = "resize"
    /\ texLog' = <<>>
    /\ evLog' = <<>>
    /\ swapLog' = NoEvents
    /\ bufLog' = <<>>
    /\ frame' = <<>>
    /\ UNCHANGED <<pc, assetManager, display_, surface_, context_, width_,
                   height_, shaderNeedsNewProjectionMatrix_, shader_, shaderRed_,
                   models_, modelsRed_, textureCache_, counter, gl, loader,
                   shaderLog, eglLog>>

\* the pointer positions tried: the top-left pixel and the surface centre
Points == {<<0, 0>>, <<surf[1] \div 2, surf[2] \div 2>>}

\* the motion events tried; ok is the result of the asset load the event
\* makes, if it makes one (a failing load is tried at the top-left pixel)
MotionEventSet ==
    {e \in {[action |-> a, x |-> p[1], y |-> p[2], ok |-> o] :
                a \in DownActions, p \in Points, o \in BOOLEAN} : e.ok \/ e.x = 0}
    \cup {[action |-> a, x |-> 0, y |-> 0, ok |-> TRUE] :
            a \in MotionActions \ DownActions}

\* the key events of one input buffer
KeySeqs == {<<>>} \cup {<<k>> : k \in KeyActions}

\* the input buffers with at most n events, the motion events from evs
Buffers(evs, n) ==
    UNION {{[motion |-> m, keys |-> k] :
              m \in [1..i -> evs],
              k \in {q \in KeySeqs : i + Len(q) <= n}} : i \in 0..n}

\* the input buffers tried with every kind of event: one event at most
InputBuffers == Buffers(MotionEventSet, 1)

\* the motion events tried in longer buffers
QueueEventSet ==
    {e \in MotionEventSet :
        \/ e.action = "DOWN" /\ e.x = 0
        \/ e.action = "POINTER_DOWN" /\ e.x # 0
        \/ e.action \notin DownActions}

\* the input buffers tried in the frame loop: at most MaxEvents events
InputQueues == Buffers(QueueEventSet, MaxEvents)

\* the pointer-down events of a buffer
Downs(evs) == Cardinality({i \in 1..Len(evs) : evs[i].action \in DownActions})

\* the pointer-down events handled so far in the run
DownsHandled == (counter - NextCounter(CounterInit)) \div CounterStep

\* Renderer::handleInput with no input buffer to swap in
HandleInputNoBuffer ==
    /\ pc = "ready"
    /\ lastOp' = "handleInput"
    /\ texLog' = <<>>
    /\ evLog' = <<>>
    /\ swapLog' = NoEvents
    /\ bufLog' = <<>>
    /\ frame' = <<>>
    /\ UNCHANGED <<pc, assetManager, surf, display_, surface_, context_, width_,
                   height_, shaderNeedsNewProjectionMatrix_, shader_, shaderRed_,
                   models_, modelsRed_, textureCache_, counter, gl, loader,
                   shaderLog, eglLog>>

\* Renderer::handleInput on an input buffer drawn from bufs.  The driving
\* loop calls handleInput once a frame: the events that came in since the
\* last call are all in the one buffer it swaps in.
HandleInputFrom(bufs) ==
    /\ pc = "ready"
    /\ lastOp # "handleInput"
    /\ \E buf \in bufs :
          /\ DownsHandled + Downs(buf.motion) <= MaxDowns
          /\ Len(models_) + Downs(buf.motion) <= MaxDowns + 2
          /\ \E r \in {HandleEvents([models |-> models_, cache |-> textureCache_,
                                      loader |-> loader, log |-> <<>>,
                                      counter |-> counter, events |-> <<>>],
                                     buf, width_, height_, assetManager)} :
                /\ models_' = r.st.models
                /\ textureCache_' = r.st.cache
                /\ loader' = r.st.loader
                /\ counter' = r.st.counter
                /\ texLog' = r.st.log
                /\ evLog' = r.st.events
                /\ bufLog' = r.steps
                /\ swapLog' = buf
    /\ lastOp' = "handleInput"
    /\ frame' = <<>>
    /\ UNCHANGED <<pc, assetManager, surf, display_, surface_, context_, width_,
                   height_, shaderNeedsNewProjectionMatrix_, shader_, shaderRed_,
                   modelsRed_, gl, shaderLog, eglLog>>

\* Renderer::handleInput on an input buffer
HandleInput == HandleInputFrom(InputBuffers)

\* the first call of the frame that reads a null texture pointer, or 0
NullRead(ops) ==
    LET S == {i \in 1..Len(ops) : ops[i].op = "glBindTexture" /\ ops[i].arg = Null}
    IN IF S = {} THEN 0 ELSE CHOOSE i \in S : \A j \in S : i <= j

\* the texture names a read through a null texture pointer can produce
StrayTextures == {0, 1}

\* the calls of a frame that ends at call n, where the process dies
FrameCut(ops, n) == SubSeq(ops, 1, n - 1)

\* the calls of a frame that runs to its end, every read through a null
\* texture pointer producing the name stray
FrameRun(ops, stray) ==
    [i \in 1..Len(ops) |->
        IF ops[i].op = "glBindTexture" /\ ops[i].arg = Null
        THEN [ops[i] EXCEPT !.arg = stray] ELSE ops[i]]
    \o <<GlOp("eglSwapBuffers", 0)>>

\* Renderer::render.  Reading the texture of a model without one is
\* undefined: the process dies there, or goes on with a stray texture name.
\* swapResult is the result of eglSwapBuffers; assert(swapResult == EGL_TRUE).
Render ==
    /\ pc = "ready"
    /\ \E u \in {UpdateRenderArea(width_, height_, shaderNeedsNewProjectionMatrix_,
                                  surf[1], surf[2])} :
       \E ops \in {RenderOps(shader_, shaderRed_, models_, modelsRed_, u, u.flag)} :
       \E n \in {NullRead(ops)} :
       \E dies \in BOOLEAN, stray \in StrayTextures, swapResult \in BOOLEAN :
          /\ n = 0 => (~dies /\ stray = 0)
          /\ dies => (stray = 0 /\ swapResult)
          /\ width_' = u.width_
          /\ height_' = u.height_
          /\ shaderNeedsNewProjectionMatrix_' = (IF u.flag THEN FALSE ELSE u.flag)
          /\ frame' = IF dies THEN FrameCut(ops, n) ELSE FrameRun(ops, stray)
          /\ gl' = GlApplyAll(gl, frame')
          /\ pc' = IF dies THEN "crashed"
                   ELSE IF swapResult THEN "ready" ELSE "aborted"
    /\ lastOp' = "render"
    /\ texLog' = <<>>
    /\ evLog' = <<>>
    /\ swapLog' = NoEvents
    /\ bufLog' = <<>>
    /\ UNCHANGED <<assetManager, surf, display_, surface_, context_, shader_,
                   shaderRed_, models_, modelsRed_, textureCache_, counter,
                   loader, shaderLog, eglLog>>

\* one EGL release call and the handle it is made on
EglCall(op, handle) == [op |-> op, handle |-> handle]

\* the destructor with the surface released before the context
TeardownSurfaceFirst(d, s, c) ==
    IF d = NoDisplay
    THEN [calls |-> <<>>, display_ |-> d, surface_ |-> s, context_ |-> c]
    ELSE [calls |-> <<EglCall("eglMakeCurrent", d)>>
                    \o (IF s # NoSurface THEN <<EglCall("eglDestroySurface", s)>>
                                         ELSE <<>>)
                    \o (IF c # NoContext THEN <<EglCall("eglDestroyContext", c)>>
                                         ELSE <<>>)
                    \o <<EglCall("eglTerminate", d)>>,
          display_ |-> NoDisplay, surface_ |-> NoSurface, context_ |-> NoContext]

\* the body of Renderer::~Renderer on the handles d, s, c: the EGL calls it
\* makes, in order, and the handles afterwards
Teardown(d, s, c) ==
    IF d = NoDisplay
    THEN [calls |-> <<>>, display_ |-> d, surface_ |-> s, context_ |-> c]
    ELSE [calls |-> <<EglCall("eglMakeCurrent", d)>>
                    \o (IF c # NoContext THEN <<EglCall("eglDestroyContext", c)>>
                                         ELSE <<>>)
                    \o (IF s # NoSurface THEN <<EglCall("eglDestroySurface", s)>>
                                         ELSE <<>>)
                    \o <<EglCall("eglTerminate", d)>>,
          display_ |-> NoDisplay, surface_ |-> NoSurface, context_ |-> NoContext]

\* Renderer::~Renderer
Destroy ==
    /\ pc \in {"constructed", "ready"}
    /\ \E t \in {Teardown(display_, surface_, context_)} :
          /\ eglLog' = eglLog \o t.calls
          /\ context_' = t.context_
          /\ surface_' = t.surface_
          /\ display_' = t.display_
    /\ pc' = "destroyed"
    /\ lastOp' = "destroy"
    /\ texLog' = <<>>
    /\ evLog' = <<>>
    /\ swapLog' = NoEvents
    /\ bufLog' = <<>>
    /\ frame' = <<>>
    /\ UNCHANGED <<assetManager, surf, width_, height_,
                   shaderNeedsNewProjectionMatrix_, shader_, shaderRed_, models_,
                   modelsRed_, textureCache_, counter, gl, loader, shaderLog>>

Next ==
    \/ InitRenderer
    \/ Resize
    \/ HandleInputNoBuffer
    \/ HandleInput
    \/ Render
    \/ Destroy

Spec == Init /\ [][Next]_vars

(***************************************************************************)
(* The frame loop on one surface: handleInput is called once a frame, on   *)
(* input buffers of several events.                                        *)
(***************************************************************************)
InitInput ==
    /\ Init
    /\ assetManager
    /\ surf = <<2, 2>>
    /\ shaderNeedsNewProjectionMatrix_

\* Renderer::handleInput on an input buffer of the frame loop
HandleInputQueue == HandleInputFrom(InputQueues)

NextInput ==
    \/ InitRenderer
    \/ HandleInputNoBuffer
    \/ HandleInputQueue
    \/ Render
    \/ Destroy

SpecInput == InitInput /\ [][NextInput]_vars

(***************************************************************************)
(* The texture cache                                                       *)
(***************************************************************************)
\* C1 as stated: over any sequence of getOrLoadTexture calls, whatever the
\* outcome of each load, the asset loader is invoked at most once per key.
C1_LoadedAtMostOnce == \A k \in Keys : loader.calls[k] <= 1

\* C1 as amended: the asset loader succeeds at most once per key and is
\* never invoked for a key the cache holds (a load that fails is not cached,
\* and a later request for the key invokes the loader again).
C1_LoadedAtMostOnceOk ==
    /\ \A k \in Keys : loader.oks[k] <= 1
    /\ \A i \in 1..Len(texLog) :
          texLog[i].loaded => texLog[i].key \notin DOMAIN texLog[i].before

\* a failed load, then a load of the same key that succeeds, then a hit
C1_Witness ==
    /\ loader.calls[RobotKey] = 2 /\ loader.oks[RobotKey] = 1
    /\ \E i \in 1..Len(texLog) : texLog[i].hit

C2_Calls ==
    \A i \in 1..Len(texLog) :
       LET c == texLog[i] IN
       /\ c.key \in DOMAIN c.before =>
             (c.ret = c.before[c.key] /\ ~c.loaded /\ c.after = c.before)
       /\ c.ret # Null => (c.key \in DOMAIN c.after /\ c.after[c.key] = c.ret)

C2_Kept ==
    \A k \in DOMAIN textureCache_ :
       k \in DOMAIN textureCache_' /\ textureCache_'[k] = textureCache_[k]

\* C2: a texture returned by getOrLoadTexture(key) is the cache entry of key;
\* a call for a key the cache holds returns that entry without invoking the
\* loader; and no step replaces or removes a cache entry.
C2_SameTextureEverAfter == [](C2_Calls) /\ [][C2_Kept]_vars

\* a call that found the texture an earlier call had loaded
C2_Witness ==
    \E i \in 1..Len(texLog) :
       texLog[i].hit /\ texLog[i].ret # Null /\ loader.calls[texLog[i].key] = 1

\* C3: a getOrLoadTexture call that misses the cache and gets no texture
\* (the loader returns none, or there is no asset manager) returns null and
\* leaves the cache as it was.
C3_FailedLoadLeavesCache ==
    \A i \in 1..Len(texLog) :
       LET c == texLog[i] IN
       (~c.hit /\ c.got = Null) => (c.ret = Null /\ c.after = c.before)

\* a call for which the loader was invoked and returned no texture
C3_Witness ==
    \E i \in 1..Len(texLog) :
       ~texLog[i].hit /\ texLog[i].loaded /\ texLog[i].got = Null

(***************************************************************************)
(* Shader::loadShader                                                      *)
(***************************************************************************)
\* C4 as stated: when loadShader returns, both stage objects it made have
\* been deleted on every path, and on every failure path the program object
\* has been deleted too.
C4_StagesReleased ==
    \A i \in 1..Len(shaderLog) :
       /\ shaderLog[i].stagesLive = {}
       /\ shaderLog[i].shader = NoShader => ~shaderLog[i].programLive

\* the GL calls loadShader needs to succeed
RequiredSteps == {"vsCreate", "vsCompile", "fsCreate", "fsCompile",
                  "progCreate", "link", "posLoc", "projLoc"}

\* C5: loadShader returns a Shader exactly when both stages compiled, the
\* program was created and linked, and the position attribute and the
\* projection uniform were found; a Shader returned holds a live program
\* and both required locations.
C5_AllOrNothing ==
    \A i \in 1..Len(shaderLog) :
       LET c == shaderLog[i] IN
       /\ c.shader # NoShader <=> \A step \in RequiredSteps : StepOk(step, c.failAt)
       /\ c.shader # NoShader =>
             /\ c.shader.program # Null /\ c.programLive
             /\ c.shader.position_ # NotFound
             /\ c.shader.projectionMatrix_ # NotFound

\* one build that returned a Shader and one that returned null
C5_Witness ==
    /\ Len(shaderLog) = 2
    /\ shaderLog[1].shader # NoShader
    /\ shaderLog[2].shader = NoShader

\* the Shader that drew the logged call o
ShaderOf(o) == IF o.list = "modelsRed_" THEN shaderRed_ ELSE shader_

\* C6: a build with an empty UV name, or with a UV name the program lacks,
\* succeeds when the other steps do and gives the "not found" UV location;
\* drawModel through a Shader with that location sets up and enables the
\* position attribute alone and binds no texture.
C6_UvOptional ==
    /\ \A i \in 1..Len(shaderLog) :
          LET c == shaderLog[i] IN
          (c.failAt = "none" /\ (c.uvNameEmpty \/ ~c.uvFound)) =>
             (c.shader # NoShader /\ c.shader.uv_ = NotFound)
    /\ \A i \in 1..Len(frame) :
          LET o == frame[i] IN
          (o.list # "" /\ ShaderOf(o).uv_ = NotFound) =>
             /\ o.op \notin {"glBindTexture", "glActiveTexture"}
             /\ o.op \in {"glVertexAttribPointer", "glEnableVertexAttribArray",
                          "glDisableVertexAttribArray"}
                   => o.arg = ShaderOf(o).position_

\* a frame that drew a textured-list model through a program lacking inUV,
\* and a solid-color model through the program built with no UV name
C6_Witness ==
    /\ shader_ # NoShader /\ shader_.uv_ = NotFound
    /\ shaderLog[1].failAt = "none" /\ ~shaderLog[1].uvNameEmpty
    /\ \E i \in 1..Len(frame) :
          frame[i].op = "glDrawElements" /\ frame[i].list = "models_"
    /\ \E i \in 1..Len(frame) :
          frame[i].op = "glDrawElements" /\ frame[i].list = "modelsRed_"

\* the drawModel calls of the frame f, each named by its list and its index
DrawCalls(f) == {<<f[i].list, f[i].idx>> : i \in {j \in 1..Len(f) : f[j].list # ""}}

\* the places in the frame f of the GL calls named op that the drawModel
\* call d made
CallsOf(f, d, op) ==
    {i \in 1..Len(f) : f[i].list = d[1] /\ f[i].idx = d[2] /\ f[i].op = op}

\* the vertex attributes enabled after the first n calls of the frame f, none
\* being enabled when the frame starts
EnabledAfter(f, n) == GlApplyAll(EmptyGl, SubSeq(f, 1, n)).enabled

\* one drawModel call d of the frame f: it enables the position attribute,
\* then the UV attribute if the Shader has one; if it reached the draw, it
\* disables after the draw the attributes it enabled, the last enabled
\* first, and leaves enabled what was enabled before it
AttributesPaired(f, d) ==
    LET sh == IF d[1] = "modelsRed_" THEN shaderRed_ ELSE shader_
        E == CallsOf(f, d, "glEnableVertexAttribArray")
        D == CallsOf(f, d, "glDisableVertexAttribArray")
        X == CallsOf(f, d, "glDrawElements")
        All == {i \in 1..Len(f) : f[i].list = d[1] /\ f[i].idx = d[2]}
        first == CHOOSE i \in All : \A j \in All : i <= j
        last == CHOOSE i \in All : \A j \in All : j <= i
    IN
    /\ Cardinality(E) = IF sh.uv_ # NotFound THEN 2 ELSE 1
    /\ \E p \in E :
          /\ f[p].arg = sh.position_
          /\ \A u \in E \ {p} : p < u /\ f[u].arg = sh.uv_
    /\ X # {} =>
          /\ Cardinality(X) = 1
          /\ Cardinality(D) = Cardinality(E)
          /\ \A e \in E, x \in X, u \in D : e < x /\ x < u
          /\ \A e \in E : \E u \in D : f[u].arg = f[e].arg
          /\ \A e1, e2 \in E, u1, u2 \in D :
                (e1 < e2 /\ f[u1].arg = f[e1].arg /\ f[u2].arg = f[e2].arg)
                   => u2 < u1
          /\ EnabledAfter(f, last) = EnabledAfter(f, first - 1)
    /\ X = {} => D = {}

\* C19: drawModel enables the position attribute first and the UV attribute
\* second, the latter only when the UV location is valid; after the draw it
\* disables the attributes it enabled in the reverse order, so that the
\* attributes enabled after it are those enabled before it.
C19_AttributesPaired ==
    /\ \A d \in DrawCalls(frame) : AttributesPaired(frame, d)
    /\ pc # "crashed" =>
          /\ gl.enabled = {}
          /\ \A d \in DrawCalls(frame) : CallsOf(frame, d, "glDrawElements") # {}

\* a frame with a model drawn with both attributes and one with the
\* position attribute alone
C19_Witness ==
    /\ pc = "ready"
    /\ \E d \in DrawCalls(frame) :
          Cardinality(CallsOf(frame, d, "glDisableVertexAttribArray")) = 2
    /\ \E d \in DrawCalls(frame) :
          Cardinality(CallsOf(frame, d, "glDisableVertexAttribArray")) = 1

(***************************************************************************)
(* Renderer::render                                                        *)
(***************************************************************************)
\* C7: in a frame no call of a textured-list drawModel precedes a call of a
\* solid-color drawModel, and the models of one list are drawn in list order.
C7_DrawOrder ==
    \A i, j \in 1..Len(frame) :
       (i < j /\ frame[i].list # "" /\ frame[j].list # "") =>
          /\ ~(frame[i].list = "models_" /\ frame[j].list = "modelsRed_")
          /\ frame[i].list = frame[j].list => frame[i].idx <= frame[j].idx

\* a frame that drew the background and two textured models
C7_Witness ==
    /\ \E i \in 1..Len(frame) :
          frame[i].op = "glDrawElements" /\ frame[i].list = "modelsRed_"
    /\ \E i \in 1..Len(frame) :
          frame[i].op = "glDrawElements" /\ frame[i].list = "models_"
          /\ frame[i].idx = 2

Uploaded(f) == \E i \in 1..Len(f) : f[i].op = "glUniformMatrix4fv"
ViewportSet(f) == \E i \in 1..Len(f) : f[i].op = "glViewport"
Drawn(f) == \E i \in 1..Len(f) : f[i].op = "glDrawElements"

\* two updateRenderArea calls in a row on the same surface: the second
\* changes nothing, and the first raises the flag only for a new size; a call
\* on a surface one pixel wider or higher takes the new size
C8_TwoCalls ==
    LET r1 == UpdateRenderArea(width_, height_, shaderNeedsNewProjectionMatrix_,
                               surf[1], surf[2])
        r2 == UpdateRenderArea(r1.width_, r1.height_, r1.flag, surf[1], surf[2])
    IN /\ r2.flag = r1.flag /\ r2.width_ = r1.width_ /\ r2.height_ = r1.height_
       /\ ~ViewportSet(r2.ops)
       /\ r1.flag <=> (shaderNeedsNewProjectionMatrix_
                       \/ surf[1] # width_ \/ surf[2] # height_)
       /\ (surf[1] = width_ /\ surf[2] = height_) =>
             (r1.width_ = width_ /\ r1.height_ = height_ /\ ~ViewportSet(r1.ops))
       /\ \A q \in {<<width_ + 1, height_>>, <<width_, height_ + 1>>} :
             LET r == UpdateRenderArea(width_, height_, FALSE, q[1], q[2]) IN
             r.flag /\ r.width_ = q[1] /\ r.height_ = q[2] /\ ViewportSet(r.ops)

\* one render: the viewport and the cached size change exactly when the
\* surface size differs from the cached one; the matrix is uploaded exactly
\* when the flag is up after the size check; the flag is down afterwards
C8_Frame ==
    frame' # <<>> =>
       LET changed == surf[1] # width_ \/ surf[2] # height_ IN
       /\ ViewportSet(frame') <=> changed
       /\ width_' = surf[1] /\ height_' = surf[2]
       /\ ~changed => gl'.viewport = gl.viewport
       /\ changed => gl'.viewport = surf
       /\ Uploaded(frame') <=> (changed \/ shaderNeedsNewProjectionMatrix_)
       /\ ~shaderNeedsNewProjectionMatrix_'

\* C8: updateRenderArea raises the rebuild flag, sets the viewport and
\* updates the cached size only when the surface size differs from the
\* cached one, a second call on the same surface changes nothing, and render
\* uploads a projection matrix only when the flag is up, clearing it.
C8_RebuildOnResizeOnly == [](C8_TwoCalls) /\ [][C8_Frame]_vars

\* a frame on an unchanged surface: no viewport call, no upload
C8_Witness ==
    /\ pc = "ready" /\ frame # <<>>
    /\ ~Uploaded(frame) /\ ~ViewportSet(frame)

\* the places of the calls named op in the frame f
Places(f, op) == {i \in 1..Len(f) : f[i].op = op}

\* the calls of the frame f, in order: the size check (two queries, then the
\* viewport if any), the uploads, one clear, the draws, and the presentation
\* last; done tells whether the frame ran to its end
InOrder(f, done) ==
    /\ Len(f) >= 3
    /\ f[1].op = "eglQuerySurface" /\ f[2].op = "eglQuerySurface"
    /\ Places(f, "eglQuerySurface") = {1, 2}
    /\ Places(f, "glViewport") \subseteq {3}
    /\ Cardinality(Places(f, "glClear")) = 1
    /\ \A c \in Places(f, "glClear") :
          /\ \A i \in Places(f, "glUniformMatrix4fv") : i < c
          /\ \A i \in 1..Len(f) : f[i].list # "" => c < i
          /\ \A i \in Places(f, "glUseProgram") :
                i < c => \E j \in Places(f, "glUniformMatrix4fv") : i < j + 2
          /\ \A i \in Places(f, "glViewport") \cup Places(f, "eglQuerySurface") :
                \A j \in Places(f, "glUseProgram") : i < j
    /\ Places(f, "eglSwapBuffers") = IF done THEN {Len(f)} ELSE {}

\* the frame of a render call on the Renderer as it is, its lists taken empty
EmptyFrame ==
    LET u == UpdateRenderArea(width_, height_, shaderNeedsNewProjectionMatrix_,
                              surf[1], surf[2])
    IN FrameRun(RenderOps(shader_, shaderRed_, <<>>, <<>>, u, u.flag), 0)

Programs == {shader_.program, shaderRed_.program}

\* the program in use just before call i of the frame f, none being in use
\* when the frame starts
CurrentAt(f, i) ==
    LET U == {j \in Places(f, "glUseProgram") : j < i} IN
    IF U = {} THEN Null ELSE f[CHOOSE j \in U : \A k \in U : k <= j].arg

\* the calls of setProjectionMatrix and drawModel in the frame f
ProgramCalls(f) ==
    {i \in 1..Len(f) : f[i].op = "glUniformMatrix4fv" \/ f[i].list # ""}

\* C18: in a frame every setProjectionMatrix and drawModel call is made by
\* a Shader whose program is the one in use at that call; a program is
\* activated only while none is in use; and none is in use when render
\* returns.
C18_ActivationPaired ==
    /\ \A i \in ProgramCalls(frame) :
          /\ frame[i].prog \in Programs \ {Null}
          /\ CurrentAt(frame, i) = frame[i].prog
          /\ frame[i].list # "" => frame[i].prog = ShaderOf(frame[i]).program
    /\ \A i \in Places(frame, "glUseProgram") :
          /\ frame[i].arg # Null => CurrentAt(frame, i) = Null
          /\ frame[i].arg = Null => CurrentAt(frame, i) = frame[i].prog
    /\ pc # "crashed" => gl.current = Null

\* a frame in which both programs got the projection and drew their list:
\* four activations, four deactivations
C18_Witness ==
    /\ pc = "ready" /\ gl.current = Null
    /\ Cardinality(Places(frame, "glUniformMatrix4fv")) = 2
    /\ Cardinality(Places(frame, "glUseProgram")) = 8
    /\ \E i, j \in Places(frame, "glDrawElements") :
          frame[i].prog = shaderRed_.program /\ frame[j].prog = shader_.program

\* the place of the last projection upload before call i of the frame f, or 0
LastUpload(f, i) ==
    LET U == {j \in Places(f, "glUniformMatrix4fv") : j < i} IN
    IF U = {} THEN 0 ELSE CHOOSE j \in U : \A l \in U : l <= j

\* the uniforms of the programs at a draw are those left by the calls of the
\* frame up to the last upload before it
C9_Frame ==
    frame' # <<>> =>
       \A k \in {LastUpload(frame', i) : i \in Places(frame', "glDrawElements")} :
          \E uniform \in {GlApplyAll(gl, SubSeq(frame', 1, k)).uniform} :
             \A p \in Programs :
                /\ p \in DOMAIN uniform
                /\ uniform[p] = BuildOrthographicMatrix(surf[1], surf[2])

\* C9: whenever a frame draws a model, the projection matrix both programs
\* hold at that call is the one built from the surface size queried by the
\* size check of that frame.
C9_NoStaleProjection == [][C9_Frame]_vars

\* a frame drawn on the wide surface with the matrix of an earlier frame
C9_Witness ==
    /\ pc = "ready" /\ Drawn(frame) /\ ~Uploaded(frame)
    /\ surf = <<4, 2>>
    /\ \A p \in Programs : gl.uniform[p] = <<2, 1>>

\* C12 as stated: every model of the textured list that render draws
\* through the texture-sampling program holds a texture reference,
\* whatever the outcome of the texture loads.
C12_TexturedModelsHaveTexture ==
    \A i \in 1..Len(frame) :
       frame[i].list = "models_" => models_[frame[i].idx].tex # Null

(***************************************************************************)
(* The depth counter                                                       *)
(***************************************************************************)
InputModels == {i \in 1..Len(models_) : models_[i].origin = "input"}

C10_Distinct ==
    \A i, j \in InputModels : i # j => models_[i].z # models_[j].z

C10_Step ==
    /\ pc = "ready" => counter' >= counter
    /\ (pc = "ready" /\ Len(models_') > Len(models_)) =>
          counter' >= counter + (Len(models_') - Len(models_)) * CounterStep

\* C10: the depth counter never decreases, a pointer-down event that creates
\* a model strictly increases it, and no two models created by pointer-down
\* events have the same depth.
C10_DepthsDistinct == [](C10_Distinct) /\ [][C10_Step]_vars

\* two models created by pointer-down events
C10_Witness == Cardinality(InputModels) >= 2

(***************************************************************************)
(* Renderer::initRenderer                                                  *)
(***************************************************************************)
\* the loadShader calls that returned no Shader
FailedBuilds == {i \in 1..Len(shaderLog) : shaderLog[i].shader = NoShader}

\* after a program build that failed the process is aborted: no later build
\* was started, the fixed pipeline state is not set, no texture was
\* requested, both model lists are empty and no frame was drawn; a Renderer
\* that is ready, and any frame, has both programs
C16_Halted ==
    /\ \A i \in FailedBuilds :
          /\ pc = "aborted"
          /\ i = Len(shaderLog)
          /\ gl.pipeline = {}
          /\ loader.calls[RobotKey] = 0 /\ textureCache_ = <<>>
          /\ models_ = <<>> /\ modelsRed_ = <<>>
          /\ frame = <<>>
    /\ (pc = "ready" \/ frame # <<>>) =>
          /\ shader_ # NoShader /\ shader_.program \in gl.programs
          /\ shaderRed_ # NoShader /\ shaderRed_.program \in gl.programs
          /\ gl.pipeline = FixedPipelineState

\* an aborted process takes no step
C16_NoStep == pc # "aborted"

\* C16: when the build of the texture-sampling or of the solid-color program
\* fails, initRenderer halts there: the fixed pipeline state is not set up,
\* no demo content is created, and no frame is ever rendered.
C16_ShaderFailureFatal == [](C16_Halted) /\ [][C16_NoStep]_vars

\* the texture-sampling program built, the solid-color program not
C16_Witness ==
    /\ pc = "aborted"
    /\ Len(shaderLog) = 2
    /\ shaderLog[1].shader # NoShader /\ shaderLog[2].shader = NoShader
    /\ shader_ # NoShader /\ shaderRed_ = NoShader

(***************************************************************************)
(* Renderer::handleInput                                                   *)
(***************************************************************************)
\* the pointer-down events of the last handleInput
DownEvents ==
    {i \in 1..Len(evLog) :
        evLog[i].kind = "motion" /\ evLog[i].action \in DownActions}

\* a pointer-down event fetches the texture once; when the fetch returns no
\* texture, the textured list after the event is the list before it
C11_Events ==
    \A i \in DownEvents :
       /\ evLog[i].fetch
       /\ evLog[i].tex = Null => evLog[i].after.models = evLog[i].before.models

\* handleInput leaves the solid-color list as it is
C11_Red == lastOp' = "handleInput" => modelsRed_' = modelsRed_

\* C11: a pointer-down event whose texture fetch fails creates no model:
\* both model lists are the same after the event as before it.
C11_FailedFetchNoModel == [](C11_Events) /\ [][C11_Red]_vars

\* a pointer-down event handled with a failing texture fetch
C11_Witness ==
    /\ lastOp = "handleInput"
    /\ \E i \in DownEvents : evLog[i].fetch /\ evLog[i].tex = Null

\* the i-th event of the input buffer b, the motion events first
EventAt(b, i) ==
    IF i <= Len(b.motion)
    THEN [kind |-> "motion", action |-> b.motion[i].action]
    ELSE [kind |-> "key", action |-> b.keys[i - Len(b.motion)]]

\* the events of the last handleInput that were not pointer-down events
OtherEvents == (1..Len(evLog)) \ DownEvents

\* an event that is not a pointer-down makes no texture fetch and leaves
\* the textured list, the cache and the depth counter as they were; every
\* event of the buffer was handled, the motion events first, each one from
\* what the event before it left; and handleInput returned
C13_Events ==
    /\ \A i \in OtherEvents :
          ~evLog[i].fetch /\ evLog[i].after = evLog[i].before
    /\ Len(evLog) = Len(swapLog.motion) + Len(swapLog.keys)
    /\ \A i \in 1..Len(evLog) :
          /\ evLog[i].kind = EventAt(swapLog, i).kind
          /\ evLog[i].action = EventAt(swapLog, i).action
          /\ i > 1 => evLog[i].before = evLog[i - 1].after
    /\ evLog # <<>> =>
          /\ pc = "ready"
          /\ evLog[Len(evLog)].after =
                [models |-> models_, cache |-> textureCache_, counter |-> counter]

\* a handleInput call that handled no pointer-down event changed nothing
C13_Step ==
    (lastOp' = "handleInput" /\ \A i \in 1..Len(evLog') : i \in OtherEvents') =>
        UNCHANGED <<models_, modelsRed_, textureCache_, counter, pc>>

\* C13: a pointer-up, cancel or move event, a key event, or an event with an
\* unknown action leaves both model lists, the texture cache and the depth
\* counter unchanged, and the events queued after it are handled.
C13_OtherEventsIgnored == [](C13_Events) /\ [][C13_Step]_vars

\* an event with an unknown action handled first, then a pointer-down event
\* of the same buffer that created a model
C13_Witness ==
    /\ Len(evLog) = 2
    /\ evLog[1].action = "UNKNOWN" /\ evLog[2].action \in DownActions
    /\ Len(evLog[2].after.models) > Len(evLog[2].before.models)

\* the pointer-down events of the last handleInput that created a model
Created == {i \in DownEvents :
               Len(evLog[i].after.models) > Len(evLog[i].before.models)}

\* the model the event i created
CreatedBy(i) == evLog[i].after.models[Len(evLog[i].after.models)]

\* C15 as stated: on a surface of width W and height H, a pointer-down at
\* pixel (W/2, H/2) creates a model centred at (0, 0) and a pointer-down at
\* pixel (0, 0) one centred at the top-left extent (-1.25, 2), in any frame,
\* the frames before the first render included.
C15_PointerMapping ==
    \A i \in Created :
       /\ (evLog[i].x = surf[1] \div 2 /\ evLog[i].y = surf[2] \div 2) =>
             (CreatedBy(i).cx = <<0, 1>> /\ CreatedBy(i).cy = <<0, 1>>)
       /\ (evLog[i].x = 0 /\ evLog[i].y = 0) =>
             (CreatedBy(i).cx = <<-5, 4>> /\ CreatedBy(i).cy = <<2, 1>>)

(***************************************************************************)
(* The model lists                                                         *)
(***************************************************************************)
\* the list s is the beginning of the list t
IsPrefix(s, t) == Len(s) <= Len(t) /\ SubSeq(t, 1, Len(s)) = s

\* every event of handleInput leaves the models it found where they were
C20_Events ==
    \A i \in 1..Len(evLog) : IsPrefix(evLog[i].before.models, evLog[i].after.models)

\* no step removes or moves a model; render changes neither list; once the
\* Renderer is initialized the solid-color list does not change
C20_Step ==
    /\ IsPrefix(models_, models_') /\ IsPrefix(modelsRed_, modelsRed_')
    /\ lastOp' = "render" => (models_' = models_ /\ modelsRed_' = modelsRed_)
    /\ pc = "ready" => modelsRed_' = modelsRed_

\* C20: both model lists are append-only from initialization to
\* destruction: no operation removes or reorders a model, render changes
\* neither list, and after initialization the solid-color list never changes.
C20_AppendOnly == [](C20_Events) /\ [][C20_Step]_vars

\* a frame rendered after handleInput had appended a model to the demo models
C20_Witness ==
    /\ lastOp = "render" /\ pc = "ready"
    /\ Len(models_) > 2 /\ models_[1].origin = "demo"
    /\ models_[Len(models_)].origin = "input"
    /\ Len(modelsRed_) = 1

(***************************************************************************)
(* Renderer::~Renderer                                                     *)
(***************************************************************************)
IsRelease(o) == o.op \in {"eglDestroyContext", "eglDestroySurface", "eglTerminate"}

\* the calls of a teardown that release a handle, in order
Releases(calls) == SelectSeq(calls, IsRelease)

\* the releases owed for the handles d, s, c: each live handle once, the
\* context first, then the surface, then the display
Owed(d, s, c) ==
    (IF c # NoContext THEN <<EglCall("eglDestroyContext", c)>> ELSE <<>>)
    \o (IF s # NoSurface THEN <<EglCall("eglDestroySurface", s)>> ELSE <<>>)
    \o (IF d # NoDisplay THEN <<EglCall("eglTerminate", d)>> ELSE <<>>)

\* the handle triples a Renderer can hold: never initialized, fully
\* initialized, or initialized with the context or the surface null
HandleStates ==
    {h \in {NoDisplay, "display"} \X {NoSurface, "surface"} \X {NoContext, "context"} :
        h[1] = NoDisplay => (h[2] = NoSurface /\ h[3] = NoContext)}

\* the destructor on every handle triple: the releases are the owed ones, all
\* three handles are null afterwards, and a second teardown makes no call
C14_AnyHandles ==
    \A h \in HandleStates :
       LET t == Teardown(h[1], h[2], h[3]) IN
       /\ Releases(t.calls) = Owed(h[1], h[2], h[3])
       /\ t.display_ = NoDisplay /\ t.surface_ = NoSurface /\ t.context_ = NoContext
       /\ Teardown(t.display_, t.surface_, t.context_).calls = <<>>

\* the handles of the Renderer are one of those triples; once destroyed,
\* all three are null
C14_Handles ==
    /\ <<display_, surface_, context_>> \in HandleStates
    /\ pc = "destroyed" =>
          (display_ = NoDisplay /\ surface_ = NoSurface /\ context_ = NoContext)

\* a step that destroys the Renderer makes the releases owed for its handles
C14_Step ==
    IF pc' = "destroyed" /\ pc # "destroyed"
    THEN Releases(eglLog') = Releases(eglLog) \o Owed(display_, surface_, context_)
    ELSE eglLog' = eglLog

\* C14: destroying the Renderer releases each live handle once, the context,
\* then the surface, then the display, never a null handle; afterwards the
\* three handles are null and a repeated teardown releases nothing.
C14_TeardownOrder == [](C14_AnyHandles /\ C14_Handles) /\ [][C14_Step]_vars

\* a fully initialized Renderer destroyed: three releases
C14_Witness ==
    /\ pc = "destroyed"
    /\ Len(Releases(eglLog)) = 3
    /\ display_ = NoDisplay /\ surface_ = NoSurface /\ context_ = NoContext

(***************************************************************************)
(* The demo content                                                        *)
(***************************************************************************)
\* C22 as stated: whatever the outcome of the asset load, initialization
\* makes one texture request, for the demo asset, and leaves two demo models
\* in the textured list, both with the texture that request returned, and
\* one model without a texture in the solid-colour list.
C22_DemoContent ==
    (lastOp = "initRenderer" /\ pc = "ready") =>
       /\ Len(texLog) = 1
       /\ texLog[1].key = RobotKey
       /\ Len(models_) = 2
       /\ \A i \in 1..Len(models_) :
             models_[i].origin = "demo" /\ models_[i].tex = texLog[1].ret
       /\ Len(modelsRed_) = 1
       /\ modelsRed_[1].tex = Null

(***************************************************************************)
(* A texture fetch that fails while the input is handled                   *)
(***************************************************************************)
\* the pointer-down events of the last handleInput whose fetch returned no
\* texture
FailedFetches == {i \in DownEvents : evLog[i].fetch /\ evLog[i].tex = Null}

\* in a handleInput call with a failed fetch every event of the buffer was
\* handled, the motion events first, then the key events; every pointer-down
\* event made its fetch, and each one whose fetch returned a texture created
\* a model with it; and handleInput returned
C21_Events ==
    FailedFetches # {} =>
       /\ Len(evLog) = Len(swapLog.motion) + Len(swapLog.keys)
       /\ \A i \in 1..Len(evLog) :
             /\ evLog[i].kind = EventAt(swapLog, i).kind
             /\ evLog[i].action = EventAt(swapLog, i).action
       /\ \A i \in DownEvents :
             /\ evLog[i].fetch
             /\ evLog[i].tex # Null =>
                   (i \in Created /\ CreatedBy(i).tex = evLog[i].tex)
       /\ pc = "ready"

\* the render call that follows a handleInput call with a failed fetch runs
\* to its end: all its steps in order, the presentation last
C21_Render ==
    (FailedFetches # {} /\ lastOp' = "render") =>
        (pc' # "crashed" /\ InOrder(frame', TRUE))

\* C21 as stated: a failed texture fetch during input handling is isolated
\* to its event: the other motion and key events of the buffer are handled,
\* later pointer-down events still create models, and the render call that
\* follows completes all of its steps through presentation.
C21_FailedFetchIsolated == [](C21_Events) /\ [][C21_Render]_vars

(***************************************************************************)
(* The input buffer                                                        *)
(***************************************************************************)
\* the steps of handleInput on a buffer: the motion events gone through in
\* full while both queues are as swapped in, the motion queue cleared with
\* the key queue as it was, the key events gone through in full, the key
\* queue cleared
C23_Steps ==
    bufLog # <<>> =>
       /\ [k \in 1..Len(bufLog) |-> bufLog[k].op] =
             <<"motionEvents", "android_app_clear_motion_events",
               "keyEvents", "android_app_clear_key_events">>
       /\ bufLog[1].handled = Len(swapLog.motion)
       /\ bufLog[1].motion = swapLog.motion /\ bufLog[1].keys = swapLog.keys
       /\ bufLog[2].motion = <<>> /\ bufLog[2].keys = swapLog.keys
       /\ bufLog[3].handled = Len(swapLog.keys)
       /\ bufLog[3].motion = <<>> /\ bufLog[3].keys = swapLog.keys
       /\ bufLog[4].motion = <<>> /\ bufLog[4].keys = <<>>

\* the events handled are the events of the buffer, each one once, the
\* motion events in queue order and then the key events in queue order, each
\* one handled from what the one before it left
C23_Events ==
    bufLog # <<>> =>
       /\ Len(evLog) = Len(swapLog.motion) + Len(swapLog.keys)
       /\ \A i \in 1..Len(evLog) :
             /\ evLog[i].kind = EventAt(swapLog, i).kind
             /\ evLog[i].action = EventAt(swapLog, i).action
             /\ i <= Len(swapLog.motion) =>
                   (evLog[i].x = swapLog.motion[i].x /\ evLog[i].y = swapLog.motion[i].y)
             /\ i > 1 => evLog[i].before = evLog[i - 1].after
       /\ evLog # <<>> =>
             evLog[Len(evLog)].after =
                [models |-> models_, cache |-> textureCache_, counter |-> counter]

\* the pointer-down events of the last handleInput whose fetch returned a
\* texture
Textured == {i \in DownEvents : evLog[i].tex # Null}

\* the models handleInput appended are one for each pointer-down event that
\* had a texture, in the order of the events, each at the place of its event
\* and with the texture of its fetch, their depths strictly increasing
C23_Models ==
    (bufLog # <<>> /\ evLog # <<>>) =>
       LET N == Cardinality(Textured)
           old == Len(evLog[1].before.models)
       IN /\ Len(models_) = old + N
          /\ SubSeq(models_, 1, old) = evLog[1].before.models
          /\ \A i \in Textured :
                LET m == models_[old + Cardinality({j \in Textured : j <= i})]
                IN /\ m.origin = "input"
                   /\ m.tex = evLog[i].tex
                   /\ m.cx = WorldX(evLog[i].x, width_)
                   /\ m.cy = WorldY(evLog[i].y, height_)
          /\ \A k \in 1..(N - 1) : models_[old + k].z < models_[old + k + 1].z

\* a handleInput call that found no input buffer changed nothing
C23_NoBuffer ==
    (lastOp' = "handleInput" /\ bufLog' = <<>>) =>
        /\ evLog' = <<>> /\ texLog' = <<>>
        /\ UNCHANGED <<pc, display_, surface_, context_, width_, height_,
                       shaderNeedsNewProjectionMatrix_, shader_, shaderRed_,
                       models_, modelsRed_, textureCache_, counter, gl, loader,
                       shaderLog, eglLog>>

\* C23: handleInput handles each queued event once: with an input buffer,
\* the motion events in queue order, then the motion queue is cleared, then
\* the key events, then the key queue is cleared; N pointer-down events with
\* a texture available append N models to the textured list, in event order
\* and with strictly increasing depth; without a buffer nothing changes.
C23_ConsumedOnce ==
    [](C23_Steps /\ C23_Events /\ C23_Models) /\ [][C23_NoBuffer]_vars

\* a buffer of two pointer-down events handled, two models appended
C23_Witness ==
    /\ lastOp = "handleInput" /\ Len(bufLog) = 4
    /\ Cardinality(Textured) = 2
    /\ Len(models_) = Len(evLog[1].before.models) + 2
    /\ models_[Len(models_)].cx # models_[Len(models_) - 1].cx
    /\ bufLog[4].motion = <<>>

=============================================================================
